---- MODULE Spec2Model ----
(***************************************************************************)
(* MultidimensionalBisection2.py: the trust-region bisection optimiser     *)
(* MultiDimensionalBisection and the module-level restart loop around it;  *)
(* min_k_indices of kNearestNeighbors.py; the bounded lists, the replay     *)
(* memory and its sampling of Pong_temp.py; make_minibatches of            *)
(* ConvolutionalAutoencoder.py.  Each has its own specification over its   *)
(* own variables; the variables of the others stay idle.                   *)
(*                                                                         *)
(* Numbers.  The program computes with IEEE doubles; the model computes    *)
(* with fixed-point integers.  A coordinate X stands for the real X/Scale, *)
(* one unit being the resolution of the number format at that magnitude;   *)
(* an objective value F stands for F/FS.  Every operation that rounds in   *)
(* the program (the midpoint, the square root, the objective) rounds to    *)
(* the grid here.  np.inf is the value Inf, larger than every finite value *)
(* the model reaches; a sum of squares above MaxFloat overflows to it.     *)
(***************************************************************************)
EXTENDS Integers, Sequences, FiniteSets, TLC

\* ------------------------------------------------------------------ bounds
\* Fractional bits of a coordinate: Scale units make 1.0.
FracBits == 5
\* Largest |(.1*epsilon)*randn| on the grid, in units.
MaxJitter == 1
\* The counters n, m and i count without bound; they saturate here.
MaxCount == 3
\* Values of the limits max_outer_iterations and max_restarts that the
\* specification of the optimiser configures; the program has no such limit.
max_outer_iterations == 2
max_restarts == 2
\* The largest finite value of the number format, in units of 1.0: a sum of
\* squares above it is +inf.
MaxFloat == 256

Scale == 2^FracBits
\* Objective values are kept to 1/FS (the restart loop compares with 1e-3).
FS == 1000
\* v1 and v2 are kept to 1/VDen.
VDen == 10
Inf == 1000000000

\* --------------------------------------------------------------- arithmetic
Abs(a) == IF a < 0 THEN -a ELSE a

\* a/b rounded to the nearest integer (b > 0).
RDiv(a, b) == (2 * a + b) \div (2 * b)

RECURSIVE SumTo(_, _)
SumTo(g, k) == IF k = 0 THEN 0 ELSE g[k] + SumTo(g, k - 1)

\* The largest s in lo..hi with s*s <= q, by bisection (lo*lo <= q).
RECURSIVE SqrtFloor(_, _, _)
SqrtFloor(q, lo, hi) ==
    IF lo = hi THEN lo
    ELSE LET mid == (lo + hi + 1) \div 2
         IN  IF mid * mid <= q THEN SqrtFloor(q, mid, hi)
             ELSE SqrtFloor(q, lo, mid - 1)

\* np.sqrt on the grid: the integer nearest to sqrt(q).
Sqrt(q) ==
    LET r == SqrtFloor(q, 0, 46340)
    IN  IF q - r * r > r THEN r + 1 ELSE r

\* (a + b)/2. on the grid: exact when a + b is even, else the neighbour with
\* an even last digit (round-half-to-even).
Half(s) ==
    IF s % 2 = 0 THEN s \div 2
    ELSE LET lo == (s - 1) \div 2 IN IF lo % 2 = 0 THEN lo ELSE lo + 1

\* ---------------------------------------------------------------- objective
\* The first components of v1 and v2 (lines 40 and 57), in units of 1/VDen.
v1 == <<-3, -8>>
v2 == <<-4, 5>>

\* The number of parameters, len(v1) (lines 74 and 94).
Dim == Len(v1)
Dims == 1..Dim

\* np.sum of a vector.
Sum(g) == SumTo(g, Len(g))

\* Units of an angle per radian, and pi in those units.
RadUnit == VDen * Scale
PiU == RDiv(31416 * RadUnit, 10000)

Dot(v, p) == Sum([k \in DOMAIN p |-> v[k] * p[k]])

\* cos on [0, pi/2] (Bhaskara: (pi^2 - 4t^2)/(pi^2 + t^2)), in units of 1/FS.
CosQ(t) == FS - RDiv((FS \div 8) * (5 * t * t), (PiU * PiU + t * t) \div 8)

\* np.cos of the angle t/RadUnit, in units of 1/FS.
Cos(t) ==
    LET a == t % (2 * PiU)
        b == IF a > PiU THEN 2 * PiU - a ELSE a
    IN  IF 2 * b <= PiU THEN CosQ(b) ELSE -CosQ(PiU - b)

\* sin on [0, pi] (Bhaskara: 16t(pi - t)/(5pi^2 - 4t(pi - t))), in units of 1/FS.
SinQ(t) ==
    RDiv((FS \div 8) * (2 * t * (PiU - t)),
         (5 * PiU * PiU - 4 * t * (PiU - t)) \div 64)

\* np.sin of the angle t/RadUnit, in units of 1/FS.
Sin(t) ==
    LET a == t % (2 * PiU)
    IN  IF a <= PiU THEN SinQ(a) ELSE -SinQ(a - PiU)

\* s/Scale^2 in units of 1/FS, where s is a sum of squares of coordinates:
\* +inf when it overflows the number format.
Squares(s) ==
    IF s > MaxFloat * Scale * Scale THEN Inf ELSE RDiv(FS * s, Scale * Scale)

\* The objective of the script (line 78):
\* sum(x**2) - cos(v1.x) - cos(v2.x) + 2, in units of 1/FS.
Cosines(p) ==
    LET sq == Squares(Sum([k \in DOMAIN p |-> p[k] * p[k]]))
    IN  IF sq = Inf THEN Inf
        ELSE sq - Cos(Dot(v1, p)) - Cos(Dot(v2, p)) + 2 * FS

\* Its gradient (line 81): 2x + sin(v1.x) v1 + sin(v2.x) v2, times
\* Scale*VDen*FS (the program reads only the sign of each component).
dCosines(p) ==
    [k \in DOMAIN p |->
        2 * p[k] * VDen * FS
            + Scale * (Sin(Dot(v1, p)) * v1[k] + Sin(Dot(v2, p)) * v2[k])]

\* The one-dimensional objective (x-3)**2 that f can be bound to, in units
\* of 1/FS, and its gradient 2(x-3) (times Scale).
Parabola(p) == Squares((p[1] - 3 * Scale) * (p[1] - 3 * Scale))
dParabola(p) == [k \in DOMAIN p |-> 2 * (p[k] - 3 * Scale)]

\* d(x, y, norm=2) squared; the distance to the +inf vector is +inf.
d2(p, q) ==
    IF \E k \in DOMAIN p : q[k] = Inf \/ p[k] = Inf THEN Inf
    ELSE Sum([k \in DOMAIN p |-> (p[k] - q[k]) * (p[k] - q[k])])

\* d(x, y, norm=2).
d(p, q) == IF d2(p, q) = Inf THEN Inf ELSE Sqrt(d2(p, q))


\* --------------------------------------------------------------- inputs
\* The objective threshold 1e-3 of the restart loop (line 158), in 1/FS.
Threshold == 1
\* trust_range = 2 passed at line 161, in units.
InitialTrustRange == 2 * Scale
\* Coordinates np.random.uniform(-2, 2) is sampled at (lines 155 and 160).
StartCoords == {-2 * Scale, 0, 1, Scale + 13}
StartPoints == [Dims -> StartCoords]
\* The tolerance epsilon of a run, in units (one unit is 1/Scale).
Epsilons == {1, 4}
\* (.1*epsilon)*np.random.randn(len(x)) on the grid (line 147).
Jitters(p) == [DOMAIN p -> -MaxJitter..MaxJitter]

\* A name that is not bound (a local before its first assignment, or after
\* the function has returned).
Unbound == <<>>

VARIABLES
    pc,             \* the line the program is at
    objective,      \* what the module-level names f and df are bound to
    x_global_best,  \* module-level x_best (lines 155, 163)
    i,              \* module-level restart counter (line 159)
    epsilon,        \* the epsilon argument of MultiDimensionalBisection
    x,              \* MultiDimensionalBisection's x; module-level x after it returns
    x_prev, trust_range, x_high, x_low, y, fy, fx, x_best, fx_best,
    n, m,           \* MultiDimensionalBisection's step and cycle counters
    fx_seen,        \* history: the values fx evaluated in the current cycle
    x_seen,         \* history: the points x evaluated in the current cycle
    x_arg,          \* history: the x MultiDimensionalBisection was called with
    pending,        \* restart results still to be merged into x_best
    merged,         \* history: the initial x_best and the results merged, in order
    twin,           \* what the latest random draw gave a second execution
    knn_pc,         \* kNearestNeighbors.py: where the call of min_k_indices is
    cdist,          \* the list of distances kNN passes to min_k_indices
    k_neighbors,    \* the number of neighbours kNN passes to min_k_indices
    min_indices,    \* what min_k_indices returned
    existing_list,  \* Pong_temp.py: the list given to add_to_list
    max_elements_to_keep,
    frame_list,     \* the list given to add_to_frame_list
    max_frames_to_keep,
    call,           \* the latest call of the two: function, argument, exception
    sample_pc,      \* where the call of sample_from_replay_memory is
    replay_memory,  \* its arguments
    nsamples,
    include_most_recent,
    perm_idx,       \* its local perm_idx
    samples,        \* what it returned: (s1, s2, a, r, d)
    train_pc,       \* where the training loop of Pong_temp.py is
    stored,         \* history: what each time step put into the replay memory
    batch_pc,       \* ConvolutionalAutoencoder.py: where make_minibatches is
    X_train,        \* the samples given to make_minibatches
    batch_size,
    minibatches     \* what make_minibatches returned

\* The variables of MultidimensionalBisection2.py.
optimiser == <<pc, objective, x_global_best, i, epsilon, x, x_prev, trust_range,
               x_high, x_low, y, fy, fx, x_best, fx_best, n, m, fx_seen,
               x_seen, x_arg>>
\* The variables of the merge of a given collection of results.
reduction == <<pending, merged>>

\* The variables of kNearestNeighbors.py.
neighbours == <<knn_pc, cdist, k_neighbors, min_indices>>
\* The lists of Pong_temp.py and their capacities.
lists == <<existing_list, max_elements_to_keep, frame_list, max_frames_to_keep,
           call>>
\* The replay memory of Pong_temp.py and a sample of it.
replay == <<sample_pc, replay_memory, nsamples, include_most_recent, perm_idx,
            samples>>
\* The variables of the other source files.
training == <<train_pc, stored>>
\* The variables of ConvolutionalAutoencoder.py.
batching == <<batch_pc, X_train, batch_size, minibatches>>
outside == <<neighbours, lists, replay, training, batching>>

\* What the optimiser on its own leaves alone.
elsewhere == <<reduction, twin, outside>>

vars == <<optimiser, reduction, twin, outside>>

driver == <<objective, x_global_best, i, epsilon>>

\* The module-level functions f and df (lines 76-81).
f(p) == IF objective = "parabola" THEN Parabola(p) ELSE Cosines(p)
df(p) == IF objective = "parabola" THEN dParabola(p) ELSE dCosines(p)
inner == <<x_high, x_low, y, fy, fx, x_best, fx_best, fx_seen, x_seen>>

\* A counter incremented by 1, saturating at MaxCount.
Incr(c) == IF c < MaxCount THEN c + 1 ELSE c

\* np.max(np.abs((x/x_prev)-1)) > epsilon (line 103).  0/0 is nan, and a nan
\* anywhere makes np.max nan and the comparison False; c/0 is inf.
RelChangeExceeds(p, q, eps) ==
    /\ ~ \E k \in DOMAIN p : p[k] = 0 /\ q[k] = 0
    /\ \E k \in DOMAIN p :
          \/ q[k] = 0
          \/ Abs(p[k] - q[k]) * Scale > eps * Abs(q[k])

\* d(x, y) > epsilon (line 111), compared exactly.
DistExceeds(p, q, eps) == d2(p, q) > eps * eps

\* np.all(x_high - x_low > 0) (line 113).
BoxPositive(hi, lo) == \A k \in DOMAIN hi : hi[k] - lo[k] > 0

\* The test of line 158 with the comparison turned around.
RestartNeededInverted(best) == f(best) < Threshold

\* f(x_best) > 1e-3, the test of the restart loop (line 158).
RestartNeeded(best) == f(best) > Threshold

\* MergeBest without the comparison of line 162.
MergeAlways(best, p) == p

\* MergeBest with <= for the < of line 162.
MergeNotWorse(best, p) == IF f(p) <= f(best) THEN p ELSE best

\* Lines 162-163: x_best after the result p of a restart.
MergeBest(best, p) == IF f(p) < f(best) THEN p ELSE best

\* Improves without the comparison of line 134.
ImprovesAlways(fp, fb) == TRUE

\* fx < fx_best (line 134).
Improves(fp, fb) == fp < fb

\* np.argmin of the first two of a list of three: the third is not compared.
ArgMin3OfEndPoints(a, b, c) == IF a <= b THEN 0 ELSE 1

\* An index (from 0) of the least value of a list of three, the second
\* before the first before the third when values tie.
ArgMin3SecondFirst(a, b, c) ==
    IF b <= a /\ b <= c THEN 1 ELSE IF a <= c THEN 0 ELSE 2

\* np.argmin of a list of three: the first index (from 0) of the least value.
ArgMin3(a, b, c) ==
    IF a <= b /\ a <= c THEN 0 ELSE IF b <= c THEN 1 ELSE 2

\* No collection of results is being merged.
NoReduction == pending = <<>> /\ merged = <<>>

\* No draw (of a second execution) to compare with.
NoDraw == <<>>

\* kNearestNeighbors.py is not running.
NoNeighbours ==
    knn_pc = "-" /\ cdist = <<>> /\ k_neighbors = 0 /\ min_indices = <<>>

\* No call of add_to_list or add_to_frame_list yet.
NoCall == [fn |-> "-", added |-> <<>>, raised |-> "-"]

\* Pong_temp.py holds no list.
NoLists ==
    /\ existing_list = <<>> /\ max_elements_to_keep = 0
    /\ frame_list = <<>> /\ max_frames_to_keep = 0
    /\ call = NoCall

\* Lines 146-150: no experience sampled yet.
NoSamples == [s1 |-> <<>>, s2 |-> <<>>, a |-> <<>>, r |-> <<>>, d |-> <<>>]

\* Line 360: the replay memory with no experience.
NoMemory == [frames |-> <<>>, actions |-> <<>>, rewards |-> <<>>, done |-> <<>>]

\* Pong_temp.py is not sampling.
NoReplay ==
    /\ sample_pc = "-"
    /\ replay_memory = NoMemory
    /\ nsamples = 0
    /\ include_most_recent = FALSE
    /\ perm_idx = <<>>
    /\ samples = NoSamples

\* The training loop of Pong_temp.py is not running.
NoTraining == train_pc = "-" /\ stored = <<>>

\* ConvolutionalAutoencoder.py is not running.
NoBatching ==
    batch_pc = "-" /\ X_train = <<>> /\ batch_size = 0 /\ minibatches = <<>>

\* Only MultidimensionalBisection2.py is running.
NoOutside ==
    NoNeighbours /\ NoLists /\ NoReplay /\ NoTraining /\ NoBatching

\* The script after lines 155-157.
ScriptInit ==
    /\ pc = "L158"
    /\ objective = "cosines"
    /\ x_global_best \in StartPoints
    /\ i = 0
    /\ epsilon \in Epsilons
    /\ x = Unbound /\ x_prev = Unbound /\ trust_range = 0
    /\ x_high = Unbound /\ x_low = Unbound /\ y = Unbound
    /\ fy = 0 /\ fx = 0 /\ x_best = Unbound /\ fx_best = 0
    /\ n = 0 /\ m = 0
    /\ fx_seen = {} /\ x_seen = {}
    /\ x_arg = Unbound

Init == ScriptInit /\ NoReduction /\ twin = NoDraw /\ NoOutside

\* Lines 158-161 and 97-100: the test of the restart loop succeeds, a starting
\* point is sampled and MultiDimensionalBisection is entered.
Restart ==
    /\ pc = "L158"
    /\ RestartNeeded(x_global_best)
    /\ i' = Incr(i)
    /\ \E start \in StartPoints :
          /\ x' = start
          /\ x_arg' = start
          /\ x_prev' = [k \in DOMAIN start |-> 10 * start[k]]
    /\ trust_range' = InitialTrustRange
    /\ n' = 0 /\ m' = 0
    /\ pc' = "L103"
    /\ UNCHANGED <<objective, x_global_best, epsilon, inner>>

\* Lines 158 and 166: the test of the restart loop fails, the script ends.
Finish ==
    /\ pc = "L158"
    /\ ~ RestartNeeded(x_global_best)
    /\ pc' = "L166"
    /\ UNCHANGED <<driver, x_arg, x, x_prev, trust_range, inner, n, m>>

\* Lines 103-109 without line 110: fx_best is set to +inf before the first
\* cycle only.
OuterEnterKeepingBest ==
    /\ pc = "L103"
    /\ RelChangeExceeds(x, x_prev, epsilon)
    /\ m' = Incr(m)
    /\ x_high' = [k \in DOMAIN x |-> x[k] + trust_range]
    /\ x_low' = [k \in DOMAIN x |-> x[k] - trust_range]
    /\ x_prev' = x
    /\ y' = [k \in DOMAIN x |-> Inf]
    /\ fy' = Inf
    /\ fx_best' = IF m = 0 THEN Inf ELSE fx_best
    /\ fx_seen' = {} /\ x_seen' = {}
    /\ pc' = "L111"
    /\ UNCHANGED <<driver, x_arg, x, trust_range, fx, x_best, n>>

\* Lines 103-110: the test of the outer loop succeeds; the box and the
\* per-cycle values are set up.
OuterEnter ==
    /\ pc = "L103"
    /\ RelChangeExceeds(x, x_prev, epsilon)
    /\ m' = Incr(m)
    /\ x_high' = [k \in DOMAIN x |-> x[k] + trust_range]
    /\ x_low' = [k \in DOMAIN x |-> x[k] - trust_range]
    /\ x_prev' = x
    /\ y' = [k \in DOMAIN x |-> Inf]
    /\ fy' = Inf
    /\ fx_best' = Inf
    /\ fx_seen' = {} /\ x_seen' = {}
    /\ pc' = "L111"
    /\ UNCHANGED <<driver, x_arg, x, trust_range, fx, x_best, n>>

\* Lines 103, 153 and 161: the test of the outer loop fails; x is returned and
\* assigned to the module-level x, the locals are gone.
Return ==
    /\ pc = "L103"
    /\ ~ RelChangeExceeds(x, x_prev, epsilon)
    /\ pc' = "L162"
    /\ x_prev' = Unbound /\ trust_range' = 0
    /\ x_high' = Unbound /\ x_low' = Unbound /\ y' = Unbound
    /\ fy' = 0 /\ fx' = 0 /\ x_best' = Unbound /\ fx_best' = 0
    /\ n' = 0 /\ m' = 0
    /\ fx_seen' = {} /\ x_seen' = {}
    /\ UNCHANGED <<driver, x_arg, x>>

\* Line 111: the test of the inner loop.
InnerTest ==
    /\ pc = "L111"
    /\ pc' = IF DistExceeds(x, y, epsilon) THEN "L113" ELSE "L141"
    /\ UNCHANGED <<driver, x_arg, x, x_prev, trust_range, inner, n, m>>

\* Line 113: the assertion fails.  Nothing catches the AssertionError: it
\* leaves MultiDimensionalBisection and the restart loop, and ends the script.
AssertFail ==
    /\ pc = "L113"
    /\ ~ BoxPositive(x_high, x_low)
    /\ pc' = "AssertionError"
    /\ UNCHANGED <<driver, x_arg, x, x_prev, trust_range, inner, n, m>>

\* Narrow with the rule of lines 127-133 (the position of x against y) in
\* both branches.
NarrowByPosition(hi, lo, p, q, fp, fq) ==
    LET up == [k \in DOMAIN p |-> p[k] > q[k]]
    IN  [high |-> [k \in DOMAIN p |-> IF up[k] THEN p[k] ELSE hi[k]],
         low |-> [k \in DOMAIN p |-> IF up[k] THEN lo[k] ELSE p[k]]]

\* Narrow with the rule of lines 121-125 (the sign of the gradient) in both
\* branches.
NarrowByGradient(hi, lo, p, q, fp, fq) ==
    LET g == df(p)
        up == [k \in DOMAIN p |-> g[k] > 0]
    IN  [high |-> [k \in DOMAIN p |-> IF up[k] THEN p[k] ELSE hi[k]],
         low |-> [k \in DOMAIN p |-> IF up[k] THEN lo[k] ELSE p[k]]]

\* The box after lines 120-133.
Narrow(hi, lo, p, q, fp, fq) ==
    LET g == df(p)
        up == [k \in DOMAIN p |-> IF fp <= fq THEN g[k] > 0 ELSE p[k] > q[k]]
    IN  [high |-> [k \in DOMAIN p |-> IF up[k] THEN p[k] ELSE hi[k]],
         low |-> [k \in DOMAIN p |-> IF up[k] THEN lo[k] ELSE p[k]]]

\* The midpoint as the module docstring writes it (line 18):
\* x = (x_high - x_low)/2.
MidpointOfDocstring(hi, lo) == [k \in DOMAIN hi |-> Half(hi[k] - lo[k])]

\* (x_high + x_low)/2. (line 139).
Midpoint(hi, lo) == [k \in DOMAIN hi |-> Half(hi[k] + lo[k])]

\* Lines 113-139: one bisection step.
InnerStep ==
    /\ pc = "L113"
    /\ BoxPositive(x_high, x_low)
    /\ n' = Incr(n)
    /\ LET box == Narrow(x_high, x_low, x, y, f(x), fy)
       IN  /\ fx' = f(x)
           /\ x_high' = box.high
           /\ x_low' = box.low
           /\ IF Improves(f(x), fx_best)
                 THEN x_best' = x /\ fx_best' = f(x)
                 ELSE UNCHANGED <<x_best, fx_best>>
           /\ fx_seen' = fx_seen \cup {f(x)}
           /\ x_seen' = x_seen \cup {x}
           /\ y' = x
           /\ fy' = f(x)
           /\ x' = Midpoint(box.high, box.low)
    /\ pc' = "L111"
    /\ UNCHANGED <<driver, x_arg, x_prev, trust_range, m>>

\* Lines 141-147: the end points and the best point are compared, the least
\* becomes x, and the next trust range is drawn.
SelectEndpoint ==
    /\ pc = "L141"
    /\ LET f_low == f(x_low)
           f_high == f(x_high)
           a == ArgMin3(f_low, f_high, fx_best)
           chosen == <<x_low, x_high, x_best>>[a + 1]
       IN  /\ x' = chosen
           /\ fx' = <<fx, fy, fx_best, f_low, f_high>>[a + 1]
           /\ \E jitter \in Jitters(x_prev) :
                 trust_range' =
                     d(chosen, [k \in DOMAIN x_prev |-> x_prev[k] + jitter[k]])
    /\ pc' = "L103"
    /\ UNCHANGED <<driver, x_arg, x_prev, x_high, x_low, y, fy, x_best, fx_best, n, m,
                   fx_seen, x_seen>>

\* Lines 162-164: the result of the restart is merged into x_best.
Merge ==
    /\ pc = "L162"
    /\ x_global_best' = MergeBest(x_global_best, x)
    /\ x_arg' = Unbound
    /\ pc' = "L158"
    /\ UNCHANGED <<objective, i, epsilon, x, x_prev, trust_range, inner, n, m>>

Next ==
    \/ Restart /\ UNCHANGED elsewhere
    \/ Finish /\ UNCHANGED elsewhere
    \/ OuterEnter /\ UNCHANGED elsewhere
    \/ Return /\ UNCHANGED elsewhere
    \/ InnerTest /\ UNCHANGED elsewhere
    \/ AssertFail /\ UNCHANGED elsewhere
    \/ InnerStep /\ UNCHANGED elsewhere
    \/ SelectEndpoint /\ UNCHANGED elsewhere
    \/ Merge /\ UNCHANGED elsewhere

Spec == Init /\ [][Next]_vars

\* ------------------------------------------------ the function on its own
\* MultiDimensionalBisection(x, trust_range, epsilon) called by a caller
\* other than line 161, with f and df bound to either objective.
\* A coordinate so large that the sum of squares overflows.
HugeCoord == 16 * Scale
\* The argument x under the objective of the script.
CosinesPoints ==
    {[k \in Dims |-> c] : c \in {1, HugeCoord}}
        \cup {<<0, Scale + 13>>, <<Scale + 1, 1>>, <<-1, 1>>}
\* The argument x under (x-3)**2: points of the domain [-10, 10].
ParabolaCoords ==
    {-10 * Scale, -7 * Scale - 1, -1, 0, 1, 3 * Scale, 5 * Scale + 3, 10 * Scale}
ParabolaPoints == {<<c>> : c \in ParabolaCoords}
\* The radius of the domain [-10, 10].
ParabolaRange == 10 * Scale
\* The argument trust_range: the radius 2 of line 161, a large one, and the
\* radii 0 and -1 of a box with x_low >= x_high.  At a huge x only the large
\* radius is of the magnitude of the resolution of the number format there.
CallRanges(p) ==
    IF \E k \in DOMAIN p : p[k] = HugeCoord THEN {HugeCoord}
    ELSE {-Scale, 0, InitialTrustRange, HugeCoord}

\* The state after lines 97-100 of such a call.
CallInit ==
    /\ pc = "L103"
    /\ NoReduction
    /\ twin = NoDraw
    /\ NoOutside
    /\ \/ /\ objective = "cosines"
          /\ x \in CosinesPoints
          /\ trust_range \in CallRanges(x)
       \/ /\ objective = "parabola"
          /\ x \in ParabolaPoints
          /\ trust_range = ParabolaRange
    /\ x_prev = [k \in DOMAIN x |-> 10 * x[k]]
    /\ epsilon \in Epsilons
    /\ x_global_best = Unbound /\ i = 0
    /\ x_high = Unbound /\ x_low = Unbound /\ y = Unbound
    /\ fy = 0 /\ fx = 0 /\ x_best = Unbound /\ fx_best = 0
    /\ n = 0 /\ m = 0
    /\ fx_seen = {} /\ x_seen = {}
    /\ x_arg = x

\* The call runs until it returns (pc = "L162": the caller has the result in
\* x) or raises.
CallNext ==
    \/ OuterEnter /\ UNCHANGED elsewhere
    \/ Return /\ UNCHANGED elsewhere
    \/ InnerTest /\ UNCHANGED elsewhere
    \/ AssertFail /\ UNCHANGED elsewhere
    \/ InnerStep /\ UNCHANGED elsewhere
    \/ SelectEndpoint /\ UNCHANGED elsewhere

CallSpec == CallInit /\ [][CallNext]_vars

\* ------------------------------------------------------ two executions
\* The script executed twice with the same configuration.  The second
\* execution is followed for as long as its random draws have given it what
\* they gave the first: until then its state is the state of the first, and
\* twin holds what its latest draw gave it.
\* What the latest draw gave the first execution: x_best (line 155), x (line
\* 160) or, through the jitter, trust_range (line 147).
Drawn ==
    IF pc = "L158" THEN x_global_best
    ELSE IF m = 0 THEN x
    ELSE <<trust_range>>

\* The two executions are in the same state.
Agree == twin = NoDraw \/ twin = Drawn

TwinInit ==
    /\ ScriptInit
    /\ NoReduction
    /\ NoOutside
    /\ twin \in StartPoints

TwinNext ==
    \/ Agree /\ Restart /\ twin' \in StartPoints /\ UNCHANGED <<reduction, outside>>
    \/ Agree /\ Finish /\ twin' = NoDraw /\ UNCHANGED <<reduction, outside>>
    \/ Agree /\ OuterEnter /\ twin' = NoDraw /\ UNCHANGED <<reduction, outside>>
    \/ Agree /\ Return /\ twin' = NoDraw /\ UNCHANGED <<reduction, outside>>
    \/ Agree /\ InnerTest /\ twin' = NoDraw /\ UNCHANGED <<reduction, outside>>
    \/ Agree /\ AssertFail /\ twin' = NoDraw /\ UNCHANGED <<reduction, outside>>
    \/ Agree /\ InnerStep /\ twin' = NoDraw /\ UNCHANGED <<reduction, outside>>
    \/ /\ Agree
       /\ SelectEndpoint
       /\ \E jitter \in Jitters(x_prev) :
             twin' = <<d(x', [k \in DOMAIN x_prev |-> x_prev[k] + jitter[k]])>>
       /\ UNCHANGED <<reduction, outside>>
    \/ Agree /\ Merge /\ twin' = NoDraw /\ UNCHANGED <<reduction, outside>>

TwinSpec == TwinInit /\ [][TwinNext]_vars

\* ------------------------------------------- merging a given collection
\* Lines 158-163 with the results of the restarts given: each restart returns
\* the next result of a collection, in the order of the collection, and
\* lines 162-163 merge it into x_best.
\* The most results in a collection.
MaxResults == 3
\* Points that restarts return.  f is even, so p and -p have the same value.
ResultPoints == {<<0, 0>>, <<1, 1>>, <<-1, -1>>, <<Scale + 13, 0>>}

RECURSIVE SeqsUpTo(_, _)
\* The sequences over S of length at most len.
SeqsUpTo(S, len) ==
    IF len = 0 THEN {<<>>}
    ELSE LET shorter == SeqsUpTo(S, len - 1)
         IN  shorter \cup {Append(q, e) : q \in shorter, e \in S}

MergeInit ==
    /\ pc = "L158"
    /\ objective = "cosines"
    /\ x_global_best \in ResultPoints
    /\ pending \in SeqsUpTo(ResultPoints, MaxResults)
    /\ merged = <<x_global_best>>
    /\ twin = NoDraw
    /\ NoOutside
    /\ i = 0
    /\ epsilon \in Epsilons
    /\ x = Unbound /\ x_prev = Unbound /\ trust_range = 0
    /\ x_high = Unbound /\ x_low = Unbound /\ y = Unbound
    /\ fy = 0 /\ fx = 0 /\ x_best = Unbound /\ fx_best = 0
    /\ n = 0 /\ m = 0
    /\ fx_seen = {} /\ x_seen = {}
    /\ x_arg = Unbound

\* Lines 159-161: a restart runs and returns the next result.
RestartReturns ==
    /\ pc = "L158"
    /\ pending # <<>>
    /\ i' = Incr(i)
    /\ x' = Head(pending)
    /\ pending' = Tail(pending)
    /\ merged' = Append(merged, Head(pending))
    /\ pc' = "L162"
    /\ UNCHANGED <<objective, x_global_best, epsilon, x_prev, trust_range,
                   inner, n, m, x_arg, twin, outside>>

MergeNext ==
    \/ RestartReturns
    \/ Merge /\ UNCHANGED <<reduction, twin, outside>>

MergeSpec == MergeInit /\ [][MergeNext]_vars

\* ------------------------------------------------- kNearestNeighbors.py
\* min_k_indices (lines 16-34) called by kNN (lines 95-97) on one list of
\* distances.  Indices are Python's: they count from 0.
\* The most training vectors (the length of a list of distances).
MaxTraining == 4
\* The largest distance.
MaxDistance == 2
Distances == 0..MaxDistance

\* MultidimensionalBisection2.py is not running.
NoScript ==
    /\ pc = "-"
    /\ objective = "-"
    /\ x_global_best = Unbound
    /\ i = 0
    /\ epsilon = 0
    /\ x = Unbound /\ x_prev = Unbound /\ trust_range = 0
    /\ x_high = Unbound /\ x_low = Unbound /\ y = Unbound
    /\ fy = 0 /\ fx = 0 /\ x_best = Unbound /\ fx_best = 0
    /\ n = 0 /\ m = 0
    /\ fx_seen = {} /\ x_seen = {}
    /\ x_arg = Unbound

\* L[at] of a Python list.
Item(L, at) == L[at + 1]

\* list.insert(at, e) for 0 <= at <= len(list).
Insert(L, at, e) == SubSeq(L, 1, at) \o <<e>> \o SubSeq(L, at + 1, Len(L))

\* Lines 29-30 with the list Len(L) + 1 long: nothing is dropped.
TrimNever(L, most) == L

\* Lines 29-30: if len(min_indices) > k: del min_indices[-1].
Trim(L, most) == IF Len(L) > most THEN SubSeq(L, 1, Len(L) - 1) ELSE L

RECURSIVE InnerLoop(_, _, _, _, _, _)
\* Lines 26-33: the loop over j from j = at on; range(len(min_indices)) was
\* evaluated when the loop began and stops it at j = stop.
InnerLoop(L, most, found, item, at, stop) ==
    IF at >= stop THEN found
    ELSE IF Item(L, item) < Item(L, Item(found, at))
         THEN Trim(Insert(found, at, item), most)
         ELSE IF Len(found) < most /\ Len(found) = at + 1
              THEN InnerLoop(L, most, Append(found, item), item, at + 1, stop)
              ELSE InnerLoop(L, most, found, item, at + 1, stop)

RECURSIVE OuterLoop(_, _, _, _)
\* Lines 25-33: the loop over i from i = item on.
OuterLoop(L, most, found, item) ==
    IF item >= Len(L) THEN found
    ELSE OuterLoop(L, most, InnerLoop(L, most, found, item, 0, Len(found)),
                   item + 1)

\* Lines 24-34, after the assertion of line 23.
min_k_indices(L, most) == OuterLoop(L, most, <<0>>, 1)

KnnInit ==
    /\ NoScript
    /\ NoReduction
    /\ twin = NoDraw
    /\ NoLists
    /\ NoReplay
    /\ NoTraining
    /\ NoBatching
    /\ knn_pc = "L97"
    /\ cdist \in SeqsUpTo(Distances, MaxTraining)
    /\ k_neighbors \in 1..MaxTraining
    /\ min_indices = <<>>

\* Line 97, lines 23-34: the assertion holds and the function returns.
MinKIndicesReturns ==
    /\ knn_pc = "L97"
    /\ Len(cdist) >= k_neighbors
    /\ min_indices' = min_k_indices(cdist, k_neighbors)
    /\ knn_pc' = "return"
    /\ UNCHANGED <<cdist, k_neighbors>>

\* Line 23: assert len(L) >= k fails.
MinKIndicesAssertFail ==
    /\ knn_pc = "L97"
    /\ Len(cdist) < k_neighbors
    /\ knn_pc' = "AssertionError"
    /\ UNCHANGED <<cdist, k_neighbors, min_indices>>

KnnNext ==
    \/ MinKIndicesReturns
       /\ UNCHANGED <<optimiser, reduction, twin, lists, replay, training,
                      batching>>
    \/ MinKIndicesAssertFail
       /\ UNCHANGED <<optimiser, reduction, twin, lists, replay, training,
                      batching>>

KnnSpec == KnnInit /\ [][KnnNext]_vars

\* ------------------------------------------- Pong_temp.py: bounded lists
\* add_to_frame_list (lines 85-96) and add_to_list (lines 98-109), called
\* again and again on a list each.
\* The largest capacity (max_elements_to_keep, max_frames_to_keep).
MaxKeep == 2
\* What the lists hold: frames, told apart by a name.
Elements == {"a", "b"}
\* The lists passed as elements_to_add and frames_to_add: up to one more
\* element than the largest capacity.
AddedLists == SeqsUpTo(Elements, MaxKeep + 1)
\* A list longer than every capacity.
Overlong == [j \in 1..(MaxKeep + 1) |-> IF j % 2 = 1 THEN "a" ELSE "b"]

RECURSIVE PopLast(_, _)
\* list.pop() diff times: the elements go from the end.
PopLast(L, diff) ==
    IF diff <= 0 THEN L ELSE PopLast(SubSeq(L, 1, Len(L) - 1), diff - 1)

RECURSIVE PopFirst(_, _)
\* Lines 95-96 and 108-109: list.pop(0) diff times.
PopFirst(L, diff) == IF diff <= 0 THEN L ELSE PopFirst(Tail(L), diff - 1)

\* Lines 101-109, after the assertion of line 100.
add_to_list(old, elements_to_add, most) ==
    IF Len(old) + Len(elements_to_add) <= most
    THEN old \o elements_to_add
    ELSE LET appended == old \o elements_to_add
         IN  PopFirst(appended, Len(appended) - most)

\* Lines 88-96, after the assertion of line 87.
add_to_frame_list(old, frames_to_add, most) ==
    IF Len(old) + Len(frames_to_add) <= most
    THEN old \o frames_to_add
    ELSE LET appended == old \o frames_to_add
         IN  PopFirst(appended, Len(appended) - most)

ListInit ==
    /\ NoScript
    /\ NoReduction
    /\ twin = NoDraw
    /\ NoNeighbours
    /\ NoReplay
    /\ NoTraining
    /\ NoBatching
    /\ existing_list \in {<<>>, Overlong}
    /\ max_elements_to_keep \in 0..MaxKeep
    /\ frame_list \in {<<>>, Overlong}
    /\ max_frames_to_keep \in 0..MaxKeep
    /\ call = NoCall

\* add_to_list(existing_list, elements_to_add, max_elements_to_keep) with a
\* list to add.
AddToList ==
    /\ call.raised = "-"
    /\ \E elements_to_add \in AddedLists :
          /\ existing_list' =
                 add_to_list(existing_list, elements_to_add, max_elements_to_keep)
          /\ call' = [fn |-> "add_to_list", added |-> elements_to_add,
                      raised |-> "-"]
    /\ UNCHANGED <<max_elements_to_keep, frame_list, max_frames_to_keep>>

\* add_to_frame_list(frame_list, frames_to_add, max_frames_to_keep) with a
\* list to add.
AddToFrameList ==
    /\ call.raised = "-"
    /\ \E frames_to_add \in AddedLists :
          /\ frame_list' =
                 add_to_frame_list(frame_list, frames_to_add, max_frames_to_keep)
          /\ call' = [fn |-> "add_to_frame_list", added |-> frames_to_add,
                      raised |-> "-"]
    /\ UNCHANGED <<existing_list, max_elements_to_keep, max_frames_to_keep>>

\* Lines 87 and 100: what is to be added is not a list.
AddAssertFail ==
    /\ call.raised = "-"
    /\ \E fn \in {"add_to_list", "add_to_frame_list"} :
          call' = [fn |-> fn, added |-> <<>>, raised |-> "AssertionError"]
    /\ UNCHANGED <<existing_list, max_elements_to_keep, frame_list,
                   max_frames_to_keep>>

ListNext ==
    \/ AddToList
       /\ UNCHANGED <<optimiser, reduction, twin, neighbours, replay,
                      training, batching>>
    \/ AddToFrameList
       /\ UNCHANGED <<optimiser, reduction, twin, neighbours, replay,
                      training, batching>>
    \/ AddAssertFail
       /\ UNCHANGED <<optimiser, reduction, twin, neighbours, replay,
                      training, batching>>

ListSpec == ListInit /\ [][ListNext]_vars

\* ----------------------------------------- Pong_temp.py: replay memory
\* sample_from_replay_memory (lines 145-176) called on a replay memory as
\* lines 388 and 422 build it: one action, reward and done flag per frame.
\* Time indices are Python's: they count from 0.
\* The most frames in the replay memory.
MaxFrames == 7
\* The largest nsamples.
MaxSamples == 3
\* The frames of a state (nframes of the script; the 4 of lines 146-167).
FramesPerState == 4
\* What one time step stores beside its frame.
Experiences == {[action |-> 0, reward |-> 0, done |-> FALSE],
                [action |-> 1, reward |-> 1, done |-> TRUE]}

\* The replay memory of the time steps steps: the frame of a step is told
\* by the time it was observed at.
Memory(steps) ==
    [frames  |-> [t \in DOMAIN steps |-> t - 1],
     actions |-> [t \in DOMAIN steps |-> steps[t].action],
     rewards |-> [t \in DOMAIN steps |-> steps[t].reward],
     done    |-> [t \in DOMAIN steps |-> steps[t].done]]

\* replay_memory['frames'].shape[-1].
NumFrames(memory) == Len(memory.frames)

\* np.random.permutation(S): every order of S.
Permutation(S) ==
    {q \in [1..Cardinality(S) -> S] : \A a, b \in DOMAIN q : q[a] = q[b] => a = b}

\* q[:stop] for stop >= 0.
Take(q, stop) == SubSeq(q, 1, IF stop < Len(q) THEN stop ELSE Len(q))

\* q[start:stop] for 0 <= start <= stop <= len(q).
Slice(q, start, stop) == SubSeq(q, start + 1, stop)

\* Line 157 permuting np.arange(4, N), the most recent index included.
UpToLatest(N) == FramesPerState..(N - 1)

\* Line 157: np.arange(4, N - 1).
BeforeLatest(N) == FramesPerState..(N - 2)

\* np.append of a bool to a float array: True is 1.0, False is 0.0.
AsFloat(flag) == IF flag THEN 1 ELSE 0

\* Lines 152-161: the orders perm_idx can come out in.
PermIdx(N, count, with_latest) ==
    IF count >= N - FramesPerState
    THEN Permutation(FramesPerState..(N - 1))
    ELSE IF with_latest = TRUE
         THEN {Append(Take(q, count - 1), N - 1) : q \in Permutation(BeforeLatest(N))}
         ELSE {Take(q, count) : q \in Permutation(FramesPerState..(N - 1))}

\* Lines 162-176: the experiences at the indices of order.
Gather(memory, order) ==
    [s1 |-> [j \in DOMAIN order |->
                Slice(memory.frames, order[j] - FramesPerState, order[j])],
     s2 |-> [j \in DOMAIN order |->
                Slice(memory.frames, order[j] - FramesPerState + 1, order[j] + 1)],
     a  |-> [j \in DOMAIN order |-> Item(memory.actions, order[j])],
     r  |-> [j \in DOMAIN order |-> Item(memory.rewards, order[j])],
     d  |-> [j \in DOMAIN order |-> AsFloat(Item(memory.done, order[j]))]]

SampleInit ==
    /\ NoScript
    /\ NoReduction
    /\ twin = NoDraw
    /\ NoNeighbours
    /\ NoLists
    /\ NoTraining
    /\ NoBatching
    /\ sample_pc = "L431"
    /\ \E N \in (FramesPerState + 1)..MaxFrames :
          \E steps \in [1..N -> Experiences] : replay_memory = Memory(steps)
    /\ nsamples \in 1..MaxSamples
    /\ include_most_recent \in BOOLEAN
    /\ perm_idx = <<>>
    /\ samples = NoSamples

\* Lines 145-176: sample_from_replay_memory(replay_memory, nsamples,
\* include_most_recent).
SampleFromReplayMemory ==
    /\ sample_pc = "L431"
    /\ perm_idx' \in PermIdx(NumFrames(replay_memory), nsamples,
                             include_most_recent)
    /\ samples' = Gather(replay_memory, perm_idx')
    /\ sample_pc' = "return"
    /\ UNCHANGED <<replay_memory, nsamples, include_most_recent>>

SampleNext ==
    \/ SampleFromReplayMemory
       /\ UNCHANGED <<optimiser, reduction, twin, neighbours, lists, training,
                      batching>>

SampleSpec == SampleInit /\ [][SampleNext]_vars

\* ------------------------------------ Pong_temp.py: filling the memory
\* add_to_array (lines 111-121) and add_to_replay_memory (lines 139-143) as
\* the training loop calls them: four entries at an episode reset (line 388),
\* one entry per step (line 422).
\* max_to_keep of add_to_replay_memory.
MaxToKeep == 5
\* The most time steps stored in a run of the training loop.
MaxStored == 12
\* The entries of a reset beside the frames: np.ones((4)), np.zeros((4)),
\* np.zeros((4), dtype=bool) (lines 384-386).
ResetActionsScalar == <<1>>
ResetActions == <<1, 1, 1, 1>>
ResetRewards == <<0, 0, 0, 0>>
ResetDone == <<FALSE, FALSE, FALSE, FALSE>>
\* What a time step of a reset stores beside its frame.
ResetExperience == [action |-> 1, reward |-> 0, done |-> FALSE]
\* What a step of an episode stores beside its frame: an action of 1, 2, 3
\* (lines 400-404), the reward and whether the episode is over.
StepExperiences == {[action |-> 1, reward |-> 0, done |-> FALSE],
                    [action |-> 2, reward |-> 1, done |-> FALSE],
                    [action |-> 3, reward |-> -1, done |-> TRUE]}

\* np.array([array_to_add]) (line 114): a scalar becomes an array of one.
AsArray(scalar) == <<scalar>>

\* Lines 113-121, the arrays along the axis they grow on.  diff is taken
\* from the array before array_to_add is appended to it.
add_to_array(array, array_to_add, max_to_keep) ==
    LET temp_array == array \o array_to_add
        diff == Len(array) - max_to_keep
    IN  IF diff > 0 THEN SubSeq(temp_array, diff + 1, Len(temp_array))
        ELSE temp_array

\* Lines 139-143.
add_to_replay_memory(memory, frame, action, reward, done, max_to_keep) ==
    [frames  |-> add_to_array(memory.frames, frame, max_to_keep),
     actions |-> add_to_array(memory.actions, action, max_to_keep),
     rewards |-> add_to_array(memory.rewards, reward, max_to_keep),
     done    |-> add_to_array(memory.done, done, max_to_keep)]

TrainInit ==
    /\ NoScript
    /\ NoReduction
    /\ twin = NoDraw
    /\ NoNeighbours
    /\ NoLists
    /\ NoReplay
    /\ NoBatching
    /\ train_pc = "L381"
    /\ stored = <<>>

\* Lines 381-389: an episode begins; three blank frames and the first
\* observation go into the memory with four actions, rewards and done flags.
EpisodeReset ==
    /\ train_pc = "L381"
    /\ Len(stored) + FramesPerState <= MaxStored
    /\ replay_memory' =
           add_to_replay_memory(replay_memory,
               [t \in 1..FramesPerState |-> Len(stored) + t - 1],
               ResetActions, ResetRewards, ResetDone, MaxToKeep)
    /\ stored' = stored \o [t \in 1..FramesPerState |-> ResetExperience]
    /\ train_pc' = "L391"
    /\ UNCHANGED <<sample_pc, nsamples, include_most_recent, perm_idx, samples>>

\* Lines 391-422: a step of the episode; the observation, the action, the
\* reward and the done flag go into the memory.  The episode goes on until a
\* step is done.
EpisodeStep ==
    /\ train_pc = "L391"
    /\ Len(stored) < MaxStored
    /\ \E e \in StepExperiences :
          /\ replay_memory' =
                 add_to_replay_memory(replay_memory, <<Len(stored)>>,
                     AsArray(e.action), AsArray(e.reward), AsArray(e.done),
                     MaxToKeep)
          /\ stored' = Append(stored, e)
          /\ train_pc' = IF e.done THEN "L381" ELSE "L391"
    /\ UNCHANGED <<sample_pc, nsamples, include_most_recent, perm_idx, samples>>

TrainNext ==
    \/ EpisodeReset
       /\ UNCHANGED <<optimiser, reduction, twin, neighbours, lists, batching>>
    \/ EpisodeStep
       /\ UNCHANGED <<optimiser, reduction, twin, neighbours, lists, batching>>

TrainSpec == TrainInit /\ [][TrainNext]_vars

\* ------------------------------------------- ConvolutionalAutoencoder.py
\* make_minibatches (lines 59-70) called on a set of samples (line 87).
\* The most samples (X.shape[0]).
MaxExamples == 5
\* The largest batch_size.
MaxBatchSize == 4

\* Lines 64-69: the batches cut from the permuted samples.  The last slice
\* starts at (b+1)*batch_size with b the last value of the loop variable.
Batches(X_perm, size) ==
    LET full == Len(X_perm) \div size
    IN  [b \in 1..full |-> Slice(X_perm, (b - 1) * size, b * size)]
            \o (IF Len(X_perm) % size # 0
                   THEN <<Slice(X_perm, full * size, Len(X_perm))>>
                   ELSE <<>>)

\* Line 68 reads the loop variable b although the loop of line 64 had no
\* iteration to bind it.
LoopVariableUnbound(count, size) == count \div size = 0 /\ count % size # 0

BatchInit ==
    /\ NoScript
    /\ NoReduction
    /\ twin = NoDraw
    /\ NoNeighbours
    /\ NoLists
    /\ NoReplay
    /\ NoTraining
    /\ batch_pc = "L87"
    /\ \E count \in 1..MaxExamples : X_train = [e \in 1..count |-> e]
    /\ batch_size \in 1..MaxBatchSize
    /\ minibatches = <<>>

\* Lines 59-70: the samples are permuted and cut into batches.
MakeMinibatches ==
    /\ batch_pc = "L87"
    /\ ~ LoopVariableUnbound(Len(X_train), batch_size)
    /\ \E perm \in Permutation(DOMAIN X_train) :
          minibatches' = Batches([e \in DOMAIN X_train |-> X_train[perm[e]]],
                                 batch_size)
    /\ batch_pc' = "return"
    /\ UNCHANGED <<X_train, batch_size>>

\* Lines 64-68: fewer samples than batch_size; the loop has no iteration and
\* line 68 raises UnboundLocalError.
MakeMinibatchesRaises ==
    /\ batch_pc = "L87"
    /\ LoopVariableUnbound(Len(X_train), batch_size)
    /\ batch_pc' = "UnboundLocalError"
    /\ UNCHANGED <<X_train, batch_size, minibatches>>

BatchNext ==
    \/ MakeMinibatches
       /\ UNCHANGED <<optimiser, reduction, twin, neighbours, lists, replay,
                      training>>
    \/ MakeMinibatchesRaises
       /\ UNCHANGED <<optimiser, reduction, twin, neighbours, lists, replay,
                      training>>

BatchSpec == BatchInit /\ [][BatchNext]_vars

\* ------------------------------------------------------------- properties
\* The program is inside the body of the outer loop: the box exists.
InCycle == pc \in {"L111", "L113", "L141"}

Min(S) == CHOOSE v \in S : \A w \in S : v <= w

\* C1: whenever the box exists (after it is set up, after every narrowing,
\* at the end-point evaluations), x_low[i] < x_high[i] in every dimension.
C1_BoxAlwaysPositive == InCycle => BoxPositive(x_high, x_low)

\* x lies in the box, bounds included.
Contained == \A k \in DOMAIN x : x_low[k] <= x[k] /\ x[k] <= x_high[k]

C3_BestIsRunningMin ==
    [][(pc = "L113" /\ pc' = "L111")
          => (fx_best' <= fx_best /\ fx_best' = Min(fx_seen'))]_vars

\* Several steps have run and the last one did not improve on the best.
C3_Witness == pc = "L111" /\ Cardinality(fx_seen) >= 3 /\ fx_best < fy

\* C4: no step raises the objective value of the global best, and the global
\* best changes only at the merge, to a result with a strictly smaller value.
C4_RestartMonotone ==
    [][/\ f(x_global_best') <= f(x_global_best)
       /\ x_global_best' # x_global_best
             => /\ pc = "L162"
                /\ x_global_best' = x
                /\ f(x) < f(x_global_best)]_vars

\* After two restarts the global best is a point no sampling produced: a
\* restart result has replaced it.
C4_Witness == pc = "L158" /\ i >= 2 /\ x_global_best \notin StartPoints

\* C5: when a run fails the box check, the restart loop takes over: the
\* program is back at the loop test with the global best unchanged.
C5_FailureCaught ==
    [][(pc = "L113" /\ ~ BoxPositive(x_high, x_low))
          => (pc' = "L158" /\ x_global_best' = x_global_best)]_vars

\* C6: the objective is evaluated at the end points only on a box that
\* satisfies x_low[i] < x_high[i] (the check precedes the evaluation and a
\* failed check aborts the run).
C6_EndPointsChecked == pc = "L141" => BoxPositive(x_high, x_low)

\* max_i |x_i/x_prev_i - 1| <= epsilon, with 0/0 read as no change.
WithinOuterTolerance(p, q, eps) ==
    \A k \in DOMAIN p : Abs(p[k] - q[k]) * Scale <= eps * Abs(q[k])

\* C7: at the test of the outer loop the run returns exactly when the
\* relative change is within the tolerance, and starts another cycle
\* otherwise.
C7_ReturnsIffConverged ==
    [][pc = "L103"
          => (pc' = "L162" <=> WithinOuterTolerance(x, x_prev, epsilon))]_vars

\* C8: a run executes at most max_outer_iterations cycles.
C8_OuterIterationsBounded == m <= max_outer_iterations

C10_RestartsBounded == i <= max_restarts

RestartsFailed == IF pc = "AssertionError" THEN 1 ELSE 0

\* C11: the script ends in a failure only when max_restarts restarts have
\* been attempted and every one of them failed the box check.
C11_FailsOnlyWhenAllRestartsFail ==
    pc = "AssertionError" => (i = max_restarts /\ RestartsFailed = i)

\* C12: an inner step whose fx is not finite aborts the run: it raises, and
\* the value decides no narrowing of the box and no update of the best point.
C12_NonFiniteAborts ==
    [][(pc = "L113" /\ BoxPositive(x_high, x_low) /\ f(x) = Inf)
          => (pc' = "AssertionError"
                /\ UNCHANGED <<x_high, x_low, x_best, fx_best>>)]_vars

\* The call was set up with x_low >= x_high (a radius <= 0) and has not yet
\* left its first cycle.
InvalidDomain ==
    /\ trust_range <= 0
    /\ \/ pc = "L103" /\ m = 0
       \/ pc \in {"L111", "L113"} /\ m = 1

\* C13: a call set up with x_low[i] >= x_high[i] fails before the objective
\* is evaluated: it does not return, it does not reach an evaluation, and
\* at the box check it raises.
C13_InvalidDomainFails ==
    [][InvalidDomain
          => /\ pc' \notin {"L162", "L141"}
             /\ pc = "L113" => pc' = "AssertionError"]_vars

\* C16: with the objective (x-3)**2, a call from a point of [-10, 10] with
\* the radius of that domain returns a point within epsilon of 3.
C16_ParabolaConverges ==
    (pc = "L162" /\ objective = "parabola") => Abs(x[1] - 3 * Scale) < epsilon

RECURSIVE FoldMerge(_, _)
\* The global best after the results of q are merged into best, in order.
FoldMerge(best, q) ==
    IF q = <<>> THEN best ELSE FoldMerge(MergeBest(best, Head(q)), Tail(q))

\* The sequences that list the elements of q in another order.
Orders(q) ==
    {[k \in DOMAIN q |-> q[o[k]]] :
        o \in {o \in [DOMAIN q -> DOMAIN q] : \A a, b \in DOMAIN q : a # b => o[a] # o[b]}}

\* Every result of the collection has been merged.
AllMerged == pc = "L158" /\ pending = <<>> /\ Len(merged) > 1

FirstLeast(q) ==
    q[Min({k \in DOMAIN q : \A j \in DOMAIN q : f(q[k]) <= f(q[j])})]

C15_SameDraws == Agree


\* C17: for 1 <= k <= len(L), min_k_indices(L, k) returns exactly k pairwise
\* distinct valid indices of L; every index it does not return has a value
\* at least that of every index it returns; the indices are listed in
\* non-decreasing order of value.
C17_KSmallestInOrder ==
    (knn_pc = "return" /\ 1 <= k_neighbors /\ k_neighbors <= Len(cdist)) =>
        LET returned == {min_indices[a] : a \in DOMAIN min_indices}
            valid == 0..(Len(cdist) - 1)
        IN  /\ Len(min_indices) = k_neighbors
            /\ Cardinality(returned) = k_neighbors
            /\ returned \subseteq valid
            /\ \A out \in valid \ returned : \A e \in returned :
                   Item(cdist, out) >= Item(cdist, e)
            /\ \A a \in 1..(Len(min_indices) - 1) :
                   Item(cdist, min_indices[a]) <= Item(cdist, min_indices[a + 1])

\* A call with fewer neighbours than distances, equal distances among them,
\* and a later distance below an earlier one.
C17_Witness ==
    /\ knn_pc = "return"
    /\ 1 < k_neighbors /\ k_neighbors < Len(cdist)
    /\ \E a, b \in DOMAIN cdist : a < b /\ cdist[b] < cdist[a]
    /\ \E a, b \in DOMAIN cdist : a # b /\ cdist[a] = cdist[b]
    /\ Item(cdist, min_indices[1]) = Item(cdist, min_indices[2])

\* The last c elements of q.
LastOf(q, c) == SubSeq(q, Len(q) - c + 1, Len(q))

\* What a call that added the list added to old, with capacity most, is to
\* leave in new.
KeepsLatest(old, added, most, new) ==
    /\ new = LastOf(old \o added, Min({most, Len(old) + Len(added)}))
    /\ Len(new) <= most
    /\ LastOf(new, Min({most, Len(added)})) =
           LastOf(added, Min({most, Len(added)}))

\* C18: a call of add_to_list or add_to_frame_list leaves in the list the
\* last min(max_to_keep, len(old) + len(added)) elements of the old list
\* followed by the added one, in their order; after every call of a sequence
\* of calls the list holds at most max_to_keep elements and ends with the
\* most recently added ones.
C18_KeepsLatest ==
    [][/\ (call'.fn = "add_to_list" /\ call'.raised = "-") =>
              KeepsLatest(existing_list, call'.added, max_elements_to_keep,
                          existing_list')
       /\ (call'.fn = "add_to_frame_list" /\ call'.raised = "-") =>
              KeepsLatest(frame_list, call'.added, max_frames_to_keep,
                          frame_list')]_vars

\* The latest call added to existing_list more elements than it keeps, so
\* that elements were popped, after a call of add_to_frame_list had filled
\* frame_list.
C18_Witness ==
    /\ call.fn = "add_to_list" /\ call.raised = "-"
    /\ Len(call.added) = MaxKeep + 1
    /\ max_elements_to_keep = MaxKeep
    /\ existing_list = LastOf(call.added, MaxKeep)
    /\ existing_list[1] # existing_list[MaxKeep]
    /\ max_frames_to_keep > 0
    /\ Len(frame_list) = max_frames_to_keep

\* The frames of times first..last, in order.
FramesOf(memory, first, last) ==
    [t \in 1..(last - first + 1) |-> Item(memory.frames, first + t - 1)]

\* C19: with N >= 5 frames and nsamples >= 1, sample_from_replay_memory
\* returns exactly min(nsamples, N - 4) experiences with pairwise distinct
\* time indices idx in 4..N-1; of each, s1 is frames idx-4..idx-1, s2 is
\* frames idx-3..idx, and the action, the reward and the done flag are the
\* entries at idx; with include_most_recent true, N-1 is among the indices.
C19_SamplesExperiences ==
    (sample_pc = "return" /\ NumFrames(replay_memory) >= 5 /\ nsamples >= 1) =>
        LET N == NumFrames(replay_memory)
            count == Min({nsamples, N - 4})
            taken == {perm_idx[j] : j \in DOMAIN perm_idx}
        IN  /\ Len(perm_idx) = count
            /\ Len(samples.s1) = count /\ Len(samples.s2) = count
            /\ Len(samples.a) = count /\ Len(samples.r) = count
            /\ Len(samples.d) = count
            /\ Cardinality(taken) = count
            /\ taken \subseteq 4..(N - 1)
            /\ \A j \in DOMAIN perm_idx :
                  LET idx == perm_idx[j]
                  IN  /\ samples.s1[j] = FramesOf(replay_memory, idx - 4, idx - 1)
                      /\ samples.s2[j] = FramesOf(replay_memory, idx - 3, idx)
                      /\ samples.a[j] = Item(replay_memory.actions, idx)
                      /\ samples.r[j] = Item(replay_memory.rewards, idx)
                      /\ samples.d[j] = AsFloat(Item(replay_memory.done, idx))
            /\ include_most_recent = TRUE => (N - 1) \in taken

\* A sample of fewer experiences than the memory has, the most recent one
\* appended to those drawn, the experiences differing.
C19_Witness ==
    /\ sample_pc = "return"
    /\ include_most_recent = TRUE
    /\ 1 < nsamples /\ nsamples < NumFrames(replay_memory) - 4
    /\ perm_idx[Len(perm_idx)] = NumFrames(replay_memory) - 1
    /\ perm_idx[1] > 4
    /\ samples.d[1] # samples.d[2]

\* C21: an inner step with fx > fy (the step worsened) narrows by position,
\* whatever the gradient: in each dimension k, x[k] > y[k] sets x_high[k] to
\* x[k] and leaves x_low[k]; x[k] <= y[k] sets x_low[k] to x[k] and leaves
\* x_high[k]; y is the iterate of the previous inner step.
C21_PositionNarrowing ==
    [][(pc = "L113" /\ pc' = "L111" /\ f(x) > fy)
          => /\ \A k \in DOMAIN x :
                   IF x[k] > y[k]
                      THEN x_high'[k] = x[k] /\ x_low'[k] = x_low[k]
                      ELSE x_low'[k] = x[k] /\ x_high'[k] = x_high[k]
             /\ y' = x]_vars

\* A step about to run with fx > fy and, in some dimension, a gradient whose
\* sign would move the other bound than the position of x against y does.
C21_Witness ==
    /\ pc = "L113"
    /\ BoxPositive(x_high, x_low)
    /\ f(x) > fy
    /\ \E k \in DOMAIN x : (df(x)[k] > 0) # (x[k] > y[k])

\* The candidates of lines 141-145 and the values they are compared by.
Candidates == <<x_low, x_high, x_best>>
CandidateValues == <<f(x_low), f(x_high), fx_best>>

C23_InnerStateFresh ==
    [][/\ (pc = "L103" /\ pc' = "L111") =>
              /\ y' = [k \in DOMAIN x |-> Inf]
              /\ fy' = Inf /\ fx_best' = Inf
              /\ x_high' = [k \in DOMAIN x |-> x[k] + trust_range]
              /\ x_low' = [k \in DOMAIN x |-> x[k] - trust_range]
       /\ pc' = "L141" => (x_best' \in x_seen' /\ fx_best' = f(x_best'))]_vars

\* The inner loop of a second or later outer iteration has exited after
\* several steps, with an x_best other than the point it started from.
C23_Witness ==
    /\ pc = "L141"
    /\ m >= 2
    /\ Cardinality(x_seen) >= 2
    /\ x_best \in x_seen
    /\ x_best # x_prev

\* C24: with a finite objective, a radius r > 0 and epsilon > 0, every pass
\* of the inner loop past its test is a step (never a failure) that exactly
\* halves x_high[k] - x_low[k] in every dimension k, so that the number of
\* steps to the exit depends on r and epsilon only.
C24_InnerStepHalves ==
    [][(pc = "L113" /\ trust_range > 0 /\ epsilon > 0 /\ f(x) # Inf)
          => /\ pc' = "L111"
             /\ \A k \in DOMAIN x :
                   2 * (x_high'[k] - x_low'[k]) = x_high[k] - x_low[k]]_vars

\* C25: with a finite objective, the point chosen at the end of an outer
\* iteration has an objective value at most that of the point the iteration
\* started from, and the point MultiDimensionalBisection returns has one at
\* most that of the point it was called with.
C25_NeverWorse ==
    [][/\ (pc = "L141" /\ pc' = "L103") => f(x') <= f(x_prev)
       /\ (pc = "L103" /\ pc' = "L162") => f(x') <= f(x_arg)]_vars

\* An outer iteration is about to choose, with both end points worse than
\* the point it started from.
C25_Witness ==
    /\ pc = "L141"
    /\ f(x_low) > f(x_prev)
    /\ f(x_high) > f(x_prev)

\* C26: after every call of add_to_replay_memory each array of the replay
\* memory holds at most max_to_keep entries (add_to_array returns at most
\* max_to_keep entries, the most recent of the array followed by those
\* added).
C26_AtMostMaxToKeep ==
    train_pc # "-" =>
        /\ Len(replay_memory.frames) <= MaxToKeep
        /\ Len(replay_memory.actions) <= MaxToKeep
        /\ Len(replay_memory.rewards) <= MaxToKeep
        /\ Len(replay_memory.done) <= MaxToKeep

\* C27: after every call of add_to_replay_memory made by the training loop
\* the four arrays have the same length, and an index refers to the same
\* time step in all four: the frames are those of consecutive time steps
\* and the action, reward and done flag at an index are what the time step
\* of the frame at that index stored.
C27_ArraysAligned ==
    train_pc # "-" =>
        LET N == Len(replay_memory.frames)
        IN  /\ Len(replay_memory.actions) = N
            /\ Len(replay_memory.rewards) = N
            /\ Len(replay_memory.done) = N
            /\ \A idx \in 1..N :
                  LET e == stored[replay_memory.frames[idx] + 1]
                  IN  /\ replay_memory.actions[idx] = e.action
                      /\ replay_memory.rewards[idx] = e.reward
                      /\ replay_memory.done[idx] = e.done
                      /\ idx > 1 => replay_memory.frames[idx] =
                                        replay_memory.frames[idx - 1] + 1

\* Old entries have been trimmed, in a second episode, and the memory holds
\* steps of both kinds.
C27_Witness ==
    /\ train_pc = "L391"
    /\ Len(replay_memory.frames) > 0
    /\ replay_memory.frames[1] > 0
    /\ \E a, b \in DOMAIN stored : a < b /\ stored[a].done /\ stored[b].action = 2
    /\ \E a, b \in DOMAIN replay_memory.done :
          replay_memory.done[a] # replay_memory.done[b]

\* C28: for m >= 1 samples and batch_size >= 1 (m < batch_size and m a
\* multiple of batch_size included) make_minibatches returns batches that
\* partition the samples: every sample is in exactly one batch, every batch
\* but the last has batch_size samples, the last has between 1 and
\* batch_size, and no batch is empty.
C28_BatchesPartition ==
    (batch_pc \notin {"-", "L87"} /\ Len(X_train) >= 1 /\ batch_size >= 1) =>
        /\ batch_pc = "return"
        /\ \A e \in DOMAIN X_train :
              Cardinality({at \in {<<b, j>> : b \in DOMAIN minibatches,
                                              j \in 1..MaxExamples} :
                              /\ at[2] \in DOMAIN minibatches[at[1]]
                              /\ minibatches[at[1]][at[2]] = X_train[e]}) = 1
        /\ \A b \in DOMAIN minibatches :
              /\ Len(minibatches[b]) >= 1
              /\ Len(minibatches[b]) <= batch_size
              /\ b < Len(minibatches) => Len(minibatches[b]) = batch_size
====
